---- MODULE Spec2Model ----
(***************************************************************************)
(* Filesystem statistics of cadvisor's fs package (src/fs/fs.go,           *)
(* src/fs/types.go): the bulk filesystem queries of RealFsInfo, the        *)
(* /proc/diskstats parser, the major/minor decoding of a device number     *)
(* and the `du` probe of GetDirUsage with its kill timer.                  *)
(*                                                                         *)
(* Text is a sequence of one-character strings, so that tokenizing,        *)
(* pattern matching and number parsing are computed as the code computes   *)
(* them.  A uint64 that takes part in bit operations is the set of its     *)
(* set bit positions (a subset of 0..63).                                  *)
(***************************************************************************)
EXTENDS Integers, Sequences, FiniteSets, TLC

VARIABLES
    \* --- partition cache, stats cache and the bulk queries
    partitionCache,   \* RealFsInfo.partitionCache: device -> partition
    refreshed,        \* the partition set of the last Refresh that succeeded
    statFails,        \* devices whose FsStats call fails
    fsCall,           \* the last bulk query: its filter and withIoStats
    fsResult,         \* what the last bulk query returned
    refreshLog,       \* what the last RefreshCache did and returned
    \* --- the disk statistics source
    diskStatsFile,    \* the file getDiskStatsMap opens
    parseResult,      \* what getDiskStatsMap returned
    \* --- GetDirFsDevice
    srcMajor,         \* the major number of the device under dir
    srcMinor,         \* the minor number of the device under dir
    statDev,          \* Stat_t.Dev of dir, a uint64 as its set of bits
    devLookup,        \* the arguments given to DeviceInfoForMajorMinor
    devResult,        \* what GetDirFsDevice returned
    \* --- GetDirUsage
    pc,               \* where GetDirUsage's goroutine stands
    dir,              \* its dir argument
    timeout,          \* its timeout argument
    child,            \* the du process
    stdoutOpen,       \* the child holds the write end of the stdout pipe
    stderrOpen,       \* the child holds the write end of the stderr pipe
    stdoutBuf,        \* what the child has written to stdout
    timer,            \* the time.AfterFunc timer
    callback,         \* the timer's callback goroutine
    killedAt,         \* the child's state when cmd.Process.Kill() was called
    waitErr,          \* whether cmd.Wait() returned an error
    duResult          \* what GetDirUsage returned

fsVars    == <<partitionCache, refreshed, statFails, fsCall, fsResult, refreshLog>>
parseVars == <<diskStatsFile, parseResult>>
devVars   == <<srcMajor, srcMinor, statDev, devLookup, devResult>>
duVars    == <<pc, dir, timeout, child, stdoutOpen, stderrOpen, stdoutBuf,
               timer, callback, killedAt, waitErr, duResult>>
vars      == <<fsVars, parseVars, devVars, duVars>>

-----------------------------------------------------------------------------
(* Text: characters, strings.Fields, strconv.ParseUint, the device pattern *)

Digits == <<"0", "1", "2", "3", "4", "5", "6", "7", "8", "9">>

IsDigit(c) == \E d \in 1..10 : Digits[d] = c

IsLower(c) == c \in {"a", "b", "c", "d", "e", "f", "g", "h", "i", "j", "k", "l", "m",
                     "n", "o", "p", "q", "r", "s", "t", "u", "v", "w", "x", "y", "z"}

\* unicode.IsSpace on the characters used here
IsSpace(c) == c \in {" ", "\t", "\n", "\r", "\f"}

RECURSIVE Cat(_)
\* string(chars): the Go string of a sequence of characters
Cat(s) == IF s = <<>> THEN "" ELSE Head(s) \o Cat(Tail(s))

RECURSIVE Split(_, _, _)
Split(s, cur, acc) ==
    IF s = <<>>
    THEN IF cur = <<>> THEN acc ELSE Append(acc, cur)
    ELSE IF IsSpace(Head(s))
         THEN Split(Tail(s), <<>>, IF cur = <<>> THEN acc ELSE Append(acc, cur))
         ELSE Split(Tail(s), Append(cur, Head(s)), acc)

\* strings.Fields: the maximal runs of non-space characters, in order
Fields(s) == Split(s, <<>>, <<>>)

DigitValue(c) == (CHOOSE d \in 1..10 : Digits[d] = c) - 1

RECURSIVE StripZeros(_)
StripZeros(s) == IF s # <<>> /\ Head(s) = "0" THEN StripZeros(Tail(s)) ELSE s

\* math.MaxUint64 = 18446744073709551615, as its decimal digits
MaxUint64Digits == <<"1", "8", "4", "4", "6", "7", "4", "4", "0", "7",
                     "3", "7", "0", "9", "5", "5", "1", "6", "1", "5">>

RECURSIVE DigitsGreater(_, _)
\* a > b for digit strings of the same length
DigitsGreater(a, b) ==
    IF a = <<>> THEN FALSE
    ELSE IF Head(a) # Head(b) THEN DigitValue(Head(a)) > DigitValue(Head(b))
         ELSE DigitsGreater(Tail(a), Tail(b))

\* the value does not fit 64 bits
OutOfRange(s) ==
    LET t == StripZeros(s)
    IN  \/ Len(t) > Len(MaxUint64Digits)
        \/ Len(t) = Len(MaxUint64Digits) /\ DigitsGreater(t, MaxUint64Digits)

RECURSIVE Horner(_, _)
Horner(s, n) == IF s = <<>> THEN n ELSE Horner(Tail(s), 10 * n + DigitValue(Head(s)))

\* strconv.ParseUint(s, 10, 64)
ParseUint(s) ==
    IF s = <<>> \/ \E i \in 1..Len(s) : ~IsDigit(s[i])
    THEN [ok |-> FALSE, err |-> "syntax", val |-> 0]
    ELSE IF OutOfRange(s)
         THEN [ok |-> FALSE, err |-> "range", val |-> 0]
         ELSE [ok |-> TRUE, err |-> "nil", val |-> Horner(s, 0)]

HasPrefix(w, p) == Len(w) >= Len(p) /\ SubSeq(w, 1, Len(p)) = p

\* (?:s|xv)d[a-z]+\d*
MatchDisk(w) ==
    \E p \in {<<"s", "d">>, <<"x", "v", "d">>} :
        /\ HasPrefix(w, p)
        /\ LET r == SubSeq(w, Len(p) + 1, Len(w))
           IN  \E k \in 1..Len(r) :
                   /\ \A i \in 1..k : IsLower(r[i])
                   /\ \A i \in (k + 1)..Len(r) : IsDigit(r[i])

\* dm-\d+
MatchDeviceMapper(w) ==
    /\ HasPrefix(w, <<"d", "m", "-">>)
    /\ Len(w) >= 4
    /\ \A i \in 4..Len(w) : IsDigit(w[i])

\* partitionRegex.MatchString: ^(?:(?:s|xv)d[a-z]+\d*|dm-\d+)$
MatchString(w) == MatchDisk(w) \/ MatchDeviceMapper(w)

-----------------------------------------------------------------------------
(* getDiskStatsMap                                                         *)

ZeroDiskStats ==
    [ReadsCompleted |-> 0, ReadsMerged |-> 0, SectorsRead |-> 0, ReadTime |-> 0,
     WritesCompleted |-> 0, WritesMerged |-> 0, SectorsWritten |-> 0, WriteTime |-> 0,
     IoInProgress |-> 0, IoTime |-> 0, WeightedIoTime |-> 0]

EmptyMap == [d \in {} |-> ZeroDiskStats]

\* path.Join("/dev", name)
DevicePath(name) == "/dev/" \o Cat(name)

\* DiskStats with ReadTime and WriteTime taken from each other's column
MakeDiskStatsSwapped(stats) ==
    [ReadsCompleted |-> stats[1], ReadsMerged |-> stats[2], SectorsRead |-> stats[3],
     ReadTime |-> stats[8], WritesCompleted |-> stats[5], WritesMerged |-> stats[6],
     SectorsWritten |-> stats[7], WriteTime |-> stats[4], IoInProgress |-> stats[9],
     IoTime |-> stats[10], WeightedIoTime |-> stats[11]]

\* DiskStats{ReadsCompleted: stats[0], ..., WeightedIoTime: stats[10]}
MakeDiskStats(stats) ==
    [ReadsCompleted |-> stats[1], ReadsMerged |-> stats[2], SectorsRead |-> stats[3],
     ReadTime |-> stats[4], WritesCompleted |-> stats[5], WritesMerged |-> stats[6],
     SectorsWritten |-> stats[7], WriteTime |-> stats[8], IoInProgress |-> stats[9],
     IoTime |-> stats[10], WeightedIoTime |-> stats[11]]

\* len(stats) < 11
TooFewColumns(n) == n < 11

\* words[2] of a line: an index out of range panics
ThirdWordMissing(words) == Len(words) < 3

\* diskStatsMap[deviceName] = diskStats
MapPut(m, k, v) == [d \in DOMAIN m \cup {k} |-> IF d = k THEN v ELSE m[d]]

RECURSIVE ScanLines(_, _, _)
\* the scanner loop, from line i on, with the map built so far
ScanLines(lines, i, m) ==
    IF i > Len(lines)
    THEN [kind |-> "ok", err |-> "nil", map |-> m]
    ELSE LET words == Fields(lines[i])
         IN  IF ThirdWordMissing(words)
             THEN [kind |-> "panic", err |-> "index out of range", map |-> EmptyMap]
             ELSE IF ~MatchString(words[3])
             THEN ScanLines(lines, i + 1, m)
             ELSE LET n      == Len(words) - 3
                      parsed == [k \in 1..n |-> ParseUint(words[k + 3])]
                  IN  IF TooFewColumns(n)
                      THEN [kind |-> "err", err |-> "columns", map |-> EmptyMap]
                      ELSE IF \E k \in 1..n : ~parsed[k].ok
                      THEN [kind |-> "err",
                            err  |-> parsed[CHOOSE k \in 1..n :
                                              /\ ~parsed[k].ok
                                              /\ \A j \in 1..(k - 1) : parsed[j].ok].err,
                            map  |-> EmptyMap]
                      ELSE ScanLines(lines, i + 1,
                               MapPut(m, DevicePath(words[3]),
                                      MakeDiskStats([k \in 1..n |-> parsed[k].val])))

\* getDiskStatsMap(diskStatsFile); the file is [state, lines]
getDiskStatsMap(file) ==
    CASE file.state = "missing" -> [kind |-> "ok", err |-> "nil", map |-> EmptyMap]
      [] file.state = "denied"  -> [kind |-> "err", err |-> "open", map |-> EmptyMap]
      [] OTHER                  -> ScanLines(file.lines, 1, EmptyMap)

-----------------------------------------------------------------------------
(* Disk statistics sources to parse                                        *)

\* the most lines a disk statistics source holds
MaxLines == 2

RECURSIVE Dec(_)
\* the decimal digits of a natural number
Dec(n) == IF n < 10 THEN <<Digits[n + 1]>> ELSE Append(Dec(n \div 10), Digits[(n % 10) + 1])

RECURSIVE Join(_, _)
\* the words of a line, each followed by the separator sep
Join(words, sep) == IF words = <<>> THEN <<>> ELSE Head(words) \o sep \o Join(Tail(words), sep)

\* "8 <b> <name> <b+1> ... <b+n>": a line of n counters for device name
StatWords(name, b, n) == <<Dec(8), Dec(b), name>> \o [k \in 1..n |-> Dec(b + k)]

sda   == <<"s", "d", "a">>
sdb1  == <<"s", "d", "b", "1">>
sdc   == <<"s", "d", "c">>
xvda  == <<"x", "v", "d", "a">>
dm0   == <<"d", "m", "-", "0">>
loop0 == <<"l", "o", "o", "p", "0">>
sr0   == <<"s", "r", "0">>
sd1   == <<"s", "d", "1">>

\* 20 digits, more than math.MaxUint64
TooBig == [k \in 1..20 |-> "9"]

LineSda      == Join(StatWords(sda, 0, 11), <<" ">>)
LineSdaLater == <<" ", " ">> \o Join(StatWords(sda, 100, 11), <<"\t">>)
LineSdb1     == <<" ">> \o Join(StatWords(sdb1, 20, 11), <<" ", " ">>)
LineDm0      == Join(StatWords(dm0, 40, 15), <<" ">>)
LineShort    == Join(StatWords(xvda, 60, 10), <<" ">>)
LineLoop     == Join(StatWords(loop0, 70, 11), <<" ">>)
LineSr0      == Join(StatWords(sr0, 0, 0), <<" ">>)
LineSd1      == Join(StatWords(sd1, 80, 4), <<" ">>)
LineSyntax   == Join([StatWords(sdb1, 30, 11) EXCEPT ![5] = <<"x">>], <<" ">>)
LineRange    == Join([StatWords(sdc, 30, 11) EXCEPT ![14] = TooBig], <<" ">>)
LineExtraBad == Join(StatWords(sdc, 50, 11) \o <<<<"-", "1">>>>, <<" ">>)
LineBlank    == <<>>
LineTwoWords == Join(<<Dec(8), Dec(0)>>, <<" ">>)

StatLines == {LineSda, LineSdaLater, LineSdb1, LineDm0, LineShort, LineLoop, LineSr0,
              LineSd1, LineSyntax, LineRange, LineExtraBad, LineBlank, LineTwoWords}

File(lines) == [state |-> "ok", lines |-> lines]
MissingFile == [state |-> "missing", lines |-> <<>>]
DeniedFile  == [state |-> "denied", lines |-> <<>>]

\* every source of at most MaxLines lines
ParseFiles ==
    {MissingFile, DeniedFile}
        \cup {File(l) : l \in UNION {[1..n -> StatLines] : n \in 0..MaxLines}}

NotRun == [kind |-> "none", err |-> "nil", map |-> EmptyMap]

-----------------------------------------------------------------------------
(* Partition cache, stats cache, bulk queries                              *)

Devices == {"/dev/sda", "/dev/sdb1", "/dev/dm-0"}

Partition(mountpoint, major, minor, fsType) ==
    [mountpoint |-> mountpoint, major |-> major, minor |-> minor,
     fsType |-> fsType, blockSize |-> 4096]

\* the partition records discovery can find for a device
Discoverable(d) ==
    CASE d = "/dev/sda"  -> {Partition("/", 8, 0, "ext4")}
      [] d = "/dev/sdb1" -> {Partition("/data", 8, 17, "ext4"), Partition("/mnt", 8, 17, "xfs")}
      [] d = "/dev/dm-0" -> {Partition("/var/lib/docker", 253, 0, "devicemapper")}

\* every partition set a discovery can produce
Caches ==
    UNION {{c \in [S -> UNION {Discoverable(d) : d \in S}] :
                \A d \in S : c[d] \in Discoverable(d)} : S \in SUBSET Devices}

Mountpoints == {"/", "/data", "/mnt", "/var/lib/docker"}

\* what FsStats reports for a device when it succeeds
StatsOf(d) ==
    CASE d = "/dev/sda"  -> [Type |-> "vfs", Capacity |-> 5000, Free |-> 2000,
                             Available |-> 1900, Inodes |-> 500, InodesFree |-> 300]
      [] d = "/dev/sdb1" -> [Type |-> "vfs", Capacity |-> 1000, Free |-> 400,
                             Available |-> 380, Inodes |-> 100, InodesFree |-> 60]
      [] d = "/dev/dm-0" -> [Type |-> "devicemapper", Capacity |-> 800, Free |-> 700,
                             Available |-> 700, Inodes |-> 0, InodesFree |-> 0]

\* FsStatsCache.FsStats(device, partition)
FsStats(device, part, fails) ==
    IF device \in fails
    THEN [err |-> "stat failed", stats |-> [Type |-> "", Capacity |-> 0, Free |-> 0,
                                           Available |-> 0, Inodes |-> 0, InodesFree |-> 0]]
    ELSE [err |-> "nil", stats |-> StatsOf(device)]

\* the filter closures of GetGlobalFsInfo, GetFsInfoForMounts, GetFsInfoForDevices
Filter(f, device, part) ==
    CASE f.kind = "global"  -> TRUE
      [] f.kind = "mounts"  -> part.mountpoint \in f.set
      [] f.kind = "devices" -> device \in f.set

\* the closure with a slip: a failed FsStats call is returned as the
\* closure's error, which ends the enumeration
VisitPartitionAbortOnError(out, device, part, f, fails) ==
    IF ~Filter(f, device, part)
    THEN [out |-> out, err |-> "nil"]
    ELSE LET r == FsStats(device, part, fails)
         IN  IF r.err # "nil"
             THEN [out |-> out, err |-> r.err]
             ELSE [out |-> Append(out,
                              [Device |-> device, Major |-> part.major, Minor |-> part.minor,
                               Type |-> r.stats.Type, Capacity |-> r.stats.Capacity,
                               Free |-> r.stats.Free, Available |-> r.stats.Available,
                               Inodes |-> r.stats.Inodes, InodesFree |-> r.stats.InodesFree,
                               DiskStats |-> ZeroDiskStats]),
                   err |-> "nil"]

\* the closure getFilteredFsInfo hands to ApplyOverPartitions
VisitPartition(out, device, part, f, fails) ==
    IF ~Filter(f, device, part)
    THEN [out |-> out, err |-> "nil"]
    ELSE LET r == FsStats(device, part, fails)
         IN  IF r.err # "nil"
             THEN [out |-> out, err |-> "nil"]
             ELSE [out |-> Append(out,
                              [Device |-> device, Major |-> part.major, Minor |-> part.minor,
                               Type |-> r.stats.Type, Capacity |-> r.stats.Capacity,
                               Free |-> r.stats.Free, Available |-> r.stats.Available,
                               Inodes |-> r.stats.Inodes, InodesFree |-> r.stats.InodesFree,
                               DiskStats |-> ZeroDiskStats]),
                   err |-> "nil"]

RECURSIVE ApplyOverPartitions(_, _, _, _, _, _)
\* PartitionCache.ApplyOverPartitions: the closure on each entry, in the order
\* given, stopping at the first error
ApplyOverPartitions(cache, order, i, out, f, fails) ==
    IF i > Len(order)
    THEN [out |-> out, err |-> "nil"]
    ELSE LET r == VisitPartition(out, order[i], cache[order[i]], f, fails)
         IN  IF r.err # "nil"
             THEN r
             ELSE ApplyOverPartitions(cache, order, i + 1, r.out, f, fails)

\* the loop of getFilteredFsInfo over filesystemsOut.  "for _, fs := range
\* filesystemsOut" copies each element into the loop variable fs, and
\* "fs.DiskStats = diskStats" assigns to that copy: loopVar holds the values the
\* loop variable ends each iteration with, and the slice keeps its elements
MergeDiskStats(filesystemsOut, diskStatsMap) ==
    LET loopVar == [i \in 1..Len(filesystemsOut) |->
                       IF filesystemsOut[i].Device \in DOMAIN diskStatsMap
                       THEN [filesystemsOut[i] EXCEPT
                                !.DiskStats = diskStatsMap[filesystemsOut[i].Device]]
                       ELSE filesystemsOut[i]]
    IN  filesystemsOut

\* the disk statistics sources of the bulk queries
FsFiles ==
    {MissingFile,
     File(<<LineSda, LineSdb1>>),
     File(<<LineSdb1, LineLoop, LineDm0, LineSdaLater>>),
     File(<<LineSda, LineShort>>),
     File(<<LineBlank, LineSda>>)}

\* getDiskStatsMap("/proc/diskstats") for each of these sources
ProcDiskstats == [file \in FsFiles |-> getDiskStatsMap(file)]

\* getFilteredFsInfo(filter, withIoStats), the cache enumerated in this order
getFilteredFsInfo(cache, order, f, withIoStats, fails, file) ==
    LET r == ApplyOverPartitions(cache, order, 1, <<>>, f, fails)
    IN  IF r.err # "nil"
        THEN [kind |-> "err", fs |-> <<>>]
        ELSE IF ~withIoStats
        THEN [kind |-> "ok", fs |-> r.out]
        ELSE LET ds == ProcDiskstats[file]
             IN  CASE ds.kind = "panic" -> [kind |-> "panic", fs |-> <<>>]
                   [] ds.kind = "err"   -> [kind |-> "err", fs |-> <<>>]
                   [] OTHER             -> [kind |-> "ok", fs |-> MergeDiskStats(r.out, ds.map)]

NoCall   == [kind |-> "none", set |-> {}, withIoStats |-> FALSE]
NoResult == [kind |-> "none", fs |-> <<>>]
NoRefresh == [err |-> "none", warned |-> FALSE]

\* the orders in which a cache of these devices can be enumerated
Orders(S) == {o \in [1..Cardinality(S) -> S] : \A i, j \in DOMAIN o : i # j => o[i] # o[j]}

MountSets == {{"/data"}, {"/", "/mnt"}, {"/srv"}, Mountpoints}

DeviceSets == {{}, {"/dev/sdb1"}, {"/dev/sda", "/dev/dm-0"}, {"/dev/sdz", "/dev/sda"}}

\* PartitionCache.Refresh: the discovery either succeeds and replaces the whole
\* set, or fails and keeps the previous one
Refresh(cache, found, ok) ==
    IF ok THEN [cache |-> found, err |-> "nil"]
          ELSE [cache |-> cache, err |-> "refresh failed"]

\* a bulk query: one call of getFilteredFsInfo
Query(f, withIoStats) ==
    \E order \in Orders(DOMAIN partitionCache) :
        /\ fsCall' = [kind |-> f.kind, set |-> f.set, withIoStats |-> withIoStats]
        /\ fsResult' = getFilteredFsInfo(partitionCache, order, f, withIoStats,
                                         statFails, diskStatsFile)
        /\ UNCHANGED <<partitionCache, refreshed, statFails, refreshLog>>
        /\ UNCHANGED <<parseVars, devVars, duVars>>

GetGlobalFsInfo ==
    \E withIoStats \in BOOLEAN : Query([kind |-> "global", set |-> {}], withIoStats)

GetFsInfoForMounts ==
    \E mountSet \in MountSets, withIoStats \in BOOLEAN :
        Query([kind |-> "mounts", set |-> mountSet], withIoStats)

GetFsInfoForDevices ==
    \E deviceSet \in DeviceSets, withIoStats \in BOOLEAN :
        Query([kind |-> "devices", set |-> deviceSet], withIoStats)

\* RefreshCache with a slip: the cache is dropped when Refresh fails
RefreshCacheClearOnError ==
    \E found \in Caches, ok \in BOOLEAN :
        LET r == Refresh(partitionCache, found, ok)
            c == IF r.err # "nil" THEN [d \in {} |-> Partition("", 0, 0, "")] ELSE r.cache
        IN  /\ partitionCache' = c
            /\ refreshed' = IF ok THEN found ELSE refreshed
            /\ refreshLog' = [err |-> r.err, warned |-> r.err # "nil"]
            /\ fsCall' = IF r.err = "nil" /\ c # partitionCache THEN NoCall ELSE fsCall
            /\ fsResult' = IF r.err = "nil" /\ c # partitionCache THEN NoResult ELSE fsResult
            /\ UNCHANGED statFails
            /\ UNCHANGED <<parseVars, devVars, duVars>>

\* RefreshCache: Refresh, and a warning when it fails.  fsCall and fsResult
\* stand for the last query of the present partition set: a Refresh that
\* replaces the set forgets them
RefreshCache ==
    \E found \in Caches, ok \in BOOLEAN :
        LET r == Refresh(partitionCache, found, ok)
        IN  /\ partitionCache' = r.cache
            /\ refreshed' = IF ok THEN found ELSE refreshed
            /\ refreshLog' = [err |-> r.err, warned |-> r.err # "nil"]
            /\ fsCall' = IF r.err = "nil" /\ r.cache # partitionCache THEN NoCall ELSE fsCall
            /\ fsResult' = IF r.err = "nil" /\ r.cache # partitionCache
                           THEN NoResult ELSE fsResult
            /\ UNCHANGED statFails
            /\ UNCHANGED <<parseVars, devVars, duVars>>

-----------------------------------------------------------------------------
(* The parser run on its own                                               *)

GetDiskStats ==
    /\ parseResult = NotRun
    /\ parseResult' = getDiskStatsMap(diskStatsFile)
    /\ UNCHANGED diskStatsFile
    /\ UNCHANGED <<fsVars, devVars, duVars>>

-----------------------------------------------------------------------------
(* major, minor, GetDirFsDevice                                            *)

RECURSIVE Value(_)
\* the number a set of bits stands for
Value(b) == IF b = {} THEN 0 ELSE LET i == CHOOSE i \in b : TRUE IN 2 ^ i + Value(b \ {i})

\* the set of bits of a number below 2^31
Uint64(n) == {i \in 0..30 : (n \div (2 ^ i)) % 2 = 1}

Shr(b, k) == {i - k : i \in {j \in b : j >= k}}
Shl(b, k) == {i + k : i \in {j \in b : j + k <= 63}}
And(a, b) == a \cap b
Or(a, b)  == a \cup b

Mask0xff    == 0..7
Mask0xfff   == 0..11
Mask0xfff00 == 8..19

\* major(devNumber)
major(devNumber) == Value(And(Shr(devNumber, 8), Mask0xfff))

\* minor with the mask 0xff00 for 0xfff00
minorNarrowMask(devNumber) ==
    Value(Or(And(devNumber, Mask0xff), And(Shr(devNumber, 12), 8..15)))

\* minor(devNumber)
minor(devNumber) ==
    Value(Or(And(devNumber, Mask0xff), And(Shr(devNumber, 12), Mask0xfff00)))

\* PartitionCache.DeviceInfoForMajorMinor
DeviceInfoForMajorMinor(cache, maj, min) ==
    IF \E d \in DOMAIN cache : cache[d].major = maj /\ cache[d].minor = min
    THEN [err |-> "nil",
          Device |-> CHOOSE d \in DOMAIN cache : cache[d].major = maj /\ cache[d].minor = min,
          Major |-> maj, Minor |-> min]
    ELSE [err |-> "not found", Device |-> "", Major |-> 0, Minor |-> 0]

NoLookup    == [major |-> -1, minor |-> -1]
NoDevResult == [err |-> "none", Device |-> "", Major |-> 0, Minor |-> 0]

GetDirFsDevice ==
    /\ devResult = NoDevResult
    /\ \E statOk \in BOOLEAN :
          IF ~statOk
          THEN /\ devResult' = [err |-> "stat failed", Device |-> "", Major |-> 0, Minor |-> 0]
               /\ UNCHANGED devLookup
          ELSE /\ devLookup' = [major |-> major(statDev), minor |-> minor(statDev)]
               /\ devResult' = DeviceInfoForMajorMinor(partitionCache,
                                                       major(statDev), minor(statDev))
    /\ UNCHANGED <<srcMajor, srcMinor, statDev>>
    /\ UNCHANGED <<fsVars, parseVars, duVars>>

\* the device number the kernel reports for (major, minor):
\* (major << 8) | (minor & 0xff) | ((minor & 0xfff00) << 12)
PackedDev(maj, min) ==
    Or(Shl(Uint64(maj), 8),
       Or(And(Uint64(min), Mask0xff), Shl(And(Uint64(min), Mask0xfff00), 12)))

Majors == {Value(S) : S \in SUBSET {0, 3, 8, 11}} \cup {253, 255, 4095}
Minors == {Value(S) : S \in SUBSET {0, 4, 7, 8, 19}} \cup {17, 255, 256, 1048320, 1048575}

-----------------------------------------------------------------------------
(* GetDirUsage: the du child, the two pipes, the kill timer                *)

Dirs     == {"", "/data"}
Timeouts == {0, 1, 30}

\* what du can have written to stdout
DuOutputs ==
    {<<"1", "2", "\t", "/", "d", "a", "t", "a", "\n">>,
     <<"0", "\t", "/", "d", "a", "t", "a", "\n">>,
     <<" ", " ", "7", " ", "x">>,
     <<"4", ".", "0", "K", "\t", "/", "d", "a", "t", "a", "\n">>,
     <<" ", "\n">>}

NoChild    == [state |-> "none", status |-> "none"]
NoDuResult == [kind |-> "none", usage |-> 0, err |-> "nil"]
DuError(e) == [kind |-> "err", usage |-> 0, err |-> e]

\* dir == "" never holds: the check left out
InvalidDirectoryNever(d) == FALSE

\* dir == ""
InvalidDirectory(d) == d = ""

\* the code after timer.Stop(): the error of Wait, then the first field of
\* stdout as kilobytes.  strings.Fields(stdout)[0] of an output without fields
\* is an index out of range.  usageInKb * 1024 is a uint64 product; the
\* outputs here stay far below 2^54 kilobytes, where it would wrap
Finish(err, stdout) ==
    IF err # "nil"
    THEN DuError("du command failed")
    ELSE LET fields == Fields(stdout)
         IN  IF fields = <<>>
             THEN [kind |-> "panic", usage |-> 0, err |-> "index out of range"]
             ELSE LET usageInKb == ParseUint(fields[1])
                  IN  IF ~usageInKb.ok
                      THEN DuError("cannot parse 'du' output")
                      ELSE [kind |-> "ok", usage |-> usageInKb.val * 1024, err |-> "nil"]

\* GetDirUsage up to cmd.Start()
GetDirUsage ==
    /\ pc = "idle"
    /\ IF InvalidDirectory(dir)
       THEN /\ pc' = "returned"
            /\ duResult' = DuError("invalid directory")
            /\ UNCHANGED <<child, stdoutOpen, stderrOpen>>
       ELSE \E setup \in {"ok", "stdout pipe", "stderr pipe", "start"} :
               IF setup # "ok"
               THEN /\ pc' = "returned"
                    /\ duResult' = DuError(setup)
                    /\ UNCHANGED <<child, stdoutOpen, stderrOpen>>
               ELSE /\ pc' = "readStdout"
                    /\ child' = [state |-> "running", status |-> "none"]
                    /\ stdoutOpen' = TRUE
                    /\ stderrOpen' = TRUE
                    /\ UNCHANGED duResult
    /\ UNCHANGED <<dir, timeout, stdoutBuf, timer, callback, killedAt, waitErr>>
    /\ UNCHANGED <<fsVars, parseVars, devVars>>

\* ioutil.ReadAll(stdoutp) returns at the end of the stream
ReadStdout ==
    /\ pc = "readStdout"
    /\ ~stdoutOpen
    /\ pc' = "readStderr"
    /\ UNCHANGED <<dir, timeout, child, stdoutOpen, stderrOpen, stdoutBuf, timer,
                   callback, killedAt, waitErr, duResult>>
    /\ UNCHANGED <<fsVars, parseVars, devVars>>

\* ioutil.ReadAll(stderrp)
ReadStderr ==
    /\ pc = "readStderr"
    /\ ~stderrOpen
    /\ pc' = "afterFunc"
    /\ UNCHANGED <<dir, timeout, child, stdoutOpen, stderrOpen, stdoutBuf, timer,
                   callback, killedAt, waitErr, duResult>>
    /\ UNCHANGED <<fsVars, parseVars, devVars>>

\* timer := time.AfterFunc(timeout, ...)
AfterFunc ==
    /\ pc = "afterFunc"
    /\ timer' = "armed"
    /\ pc' = "wait"
    /\ UNCHANGED <<dir, timeout, child, stdoutOpen, stderrOpen, stdoutBuf,
                   callback, killedAt, waitErr, duResult>>
    /\ UNCHANGED <<fsVars, parseVars, devVars>>

\* err = cmd.Wait(): returns once the child has exited, and collects it
Wait ==
    /\ pc = "wait"
    /\ child.state = "exited"
    /\ child' = [child EXCEPT !.state = "reaped"]
    /\ waitErr' = IF child.status = "zero" THEN "nil" ELSE child.status
    /\ pc' = "stop"
    /\ UNCHANGED <<dir, timeout, stdoutOpen, stderrOpen, stdoutBuf, timer,
                   callback, killedAt, duResult>>
    /\ UNCHANGED <<fsVars, parseVars, devVars>>

\* timer.Stop() and the rest of GetDirUsage
StopAndReturn ==
    /\ pc = "stop"
    /\ timer' = IF timer = "armed" THEN "stopped" ELSE timer
    /\ duResult' = Finish(waitErr, stdoutBuf)
    /\ pc' = IF Finish(waitErr, stdoutBuf).kind = "panic" THEN "panicked" ELSE "returned"
    /\ UNCHANGED <<dir, timeout, child, stdoutOpen, stderrOpen, stdoutBuf,
                   callback, killedAt, waitErr>>
    /\ UNCHANGED <<fsVars, parseVars, devVars>>

\* the timer expires: its function starts in a goroutine of its own
TimerFires ==
    /\ timer = "armed"
    /\ pc # "panicked"
    /\ timer' = "fired"
    /\ callback' = "running"
    /\ UNCHANGED <<pc, dir, timeout, child, stdoutOpen, stderrOpen, stdoutBuf,
                   killedAt, waitErr, duResult>>
    /\ UNCHANGED <<fsVars, parseVars, devVars>>

\* cmd.Process.Kill() in the timer's function
Kill ==
    /\ callback = "running"
    /\ pc # "panicked"
    /\ callback' = "done"
    /\ killedAt' = child.state
    /\ IF child.state = "running"
       THEN /\ child' = [state |-> "exited", status |-> "signal: killed"]
            /\ stdoutOpen' = FALSE
            /\ stderrOpen' = FALSE
       ELSE UNCHANGED <<child, stdoutOpen, stderrOpen>>
    /\ UNCHANGED <<pc, dir, timeout, stdoutBuf, timer, waitErr, duResult>>
    /\ UNCHANGED <<fsVars, parseVars, devVars>>

\* the child writes its report
ChildWrites ==
    /\ child.state = "running"
    /\ stdoutOpen
    /\ stdoutBuf = <<>>
    /\ \E o \in DuOutputs : stdoutBuf' = o
    /\ UNCHANGED <<pc, dir, timeout, child, stdoutOpen, stderrOpen, timer,
                   callback, killedAt, waitErr, duResult>>
    /\ UNCHANGED <<fsVars, parseVars, devVars>>

\* the child closes its stdout without exiting
ChildClosesStdout ==
    /\ child.state = "running"
    /\ stdoutOpen
    /\ stdoutOpen' = FALSE
    /\ UNCHANGED <<pc, dir, timeout, child, stderrOpen, stdoutBuf, timer,
                   callback, killedAt, waitErr, duResult>>
    /\ UNCHANGED <<fsVars, parseVars, devVars>>

\* the child closes its stderr without exiting
ChildClosesStderr ==
    /\ child.state = "running"
    /\ stderrOpen
    /\ stderrOpen' = FALSE
    /\ UNCHANGED <<pc, dir, timeout, child, stdoutOpen, stdoutBuf, timer,
                   callback, killedAt, waitErr, duResult>>
    /\ UNCHANGED <<fsVars, parseVars, devVars>>

\* the child exits by itself, which closes both pipes
ChildExits ==
    /\ child.state = "running"
    /\ \E status \in {"zero", "exit status 1"} :
           child' = [state |-> "exited", status |-> status]
    /\ stdoutOpen' = FALSE
    /\ stderrOpen' = FALSE
    /\ UNCHANGED <<pc, dir, timeout, stdoutBuf, timer, callback, killedAt,
                   waitErr, duResult>>
    /\ UNCHANGED <<fsVars, parseVars, devVars>>

-----------------------------------------------------------------------------
(* Specifications                                                          *)

FsIdle ==
    /\ partitionCache \in Caches
    /\ refreshed = partitionCache
    /\ statFails = {}
    /\ fsCall = NoCall
    /\ fsResult = NoResult
    /\ refreshLog = NoRefresh

ParseIdle ==
    /\ diskStatsFile = MissingFile
    /\ parseResult = NotRun

DevIdle ==
    /\ srcMajor = 0
    /\ srcMinor = 0
    /\ statDev = {}
    /\ devLookup = NoLookup
    /\ devResult = NoDevResult

DuIdle ==
    /\ pc = "idle"
    /\ dir = ""
    /\ timeout = 0
    /\ child = NoChild
    /\ stdoutOpen = FALSE
    /\ stderrOpen = FALSE
    /\ stdoutBuf = <<>>
    /\ timer = "none"
    /\ callback = "none"
    /\ killedAt = "none"
    /\ waitErr = "none"
    /\ duResult = NoDuResult

FullCache ==
    [d \in Devices |-> CHOOSE p \in Discoverable(d) : p.mountpoint # "/mnt"]

\* the service after NewFsInfo, with any partition set, any pattern of FsStats
\* failures and any of the disk statistics sources
FsInit ==
    /\ partitionCache \in Caches
    /\ refreshed = partitionCache
    /\ statFails \in SUBSET Devices
    /\ fsCall = NoCall
    /\ fsResult = NoResult
    /\ refreshLog = NoRefresh
    /\ diskStatsFile \in FsFiles
    /\ parseResult = NotRun
    /\ DevIdle
    /\ DuIdle

FsNext == RefreshCache \/ GetGlobalFsInfo \/ GetFsInfoForMounts \/ GetFsInfoForDevices

FsSpec == FsInit /\ [][FsNext]_vars

DiskStatsInit ==
    /\ partitionCache = FullCache
    /\ refreshed = partitionCache
    /\ statFails = {}
    /\ fsCall = NoCall
    /\ fsResult = NoResult
    /\ refreshLog = NoRefresh
    /\ diskStatsFile \in ParseFiles
    /\ parseResult = NotRun
    /\ DevIdle
    /\ DuIdle

DiskStatsNext == GetDiskStats

DiskStatsSpec == DiskStatsInit /\ [][DiskStatsNext]_vars

DevInit ==
    /\ FsIdle
    /\ ParseIdle
    /\ srcMajor \in Majors
    /\ srcMinor \in Minors
    /\ statDev = PackedDev(srcMajor, srcMinor)
    /\ devLookup = NoLookup
    /\ devResult = NoDevResult
    /\ DuIdle

DevNext == GetDirFsDevice

DevSpec == DevInit /\ [][DevNext]_vars

DuInit ==
    /\ partitionCache = FullCache
    /\ refreshed = partitionCache
    /\ statFails = {}
    /\ fsCall = NoCall
    /\ fsResult = NoResult
    /\ refreshLog = NoRefresh
    /\ ParseIdle
    /\ DevIdle
    /\ pc = "idle"
    /\ dir \in Dirs
    /\ timeout \in Timeouts
    /\ child = NoChild
    /\ stdoutOpen = FALSE
    /\ stderrOpen = FALSE
    /\ stdoutBuf = <<>>
    /\ timer = "none"
    /\ callback = "none"
    /\ killedAt = "none"
    /\ waitErr = "none"
    /\ duResult = NoDuResult

\* the steps of GetDirUsage's own goroutine
Main == GetDirUsage \/ ReadStdout \/ ReadStderr \/ AfterFunc \/ Wait \/ StopAndReturn

Child == ChildWrites \/ ChildClosesStdout \/ ChildClosesStderr \/ ChildExits

DuNext == Main \/ TimerFires \/ Kill \/ Child

DuSpec == DuInit /\ [][DuNext]_vars

\* the goroutines are scheduled and an armed timer expires; the child is free
\* never to write, close or exit
DuFairSpec ==
    DuSpec /\ WF_vars(Main) /\ WF_vars(TimerFires) /\ WF_vars(Kill)

-----------------------------------------------------------------------------
(* Properties                                                              *)

\* the partitions of the cache that pass the filter of the last query
Passing ==
    {d \in DOMAIN partitionCache :
        CASE fsCall.kind = "global"  -> TRUE
          [] fsCall.kind = "mounts"  -> partitionCache[d].mountpoint \in fsCall.set
          [] fsCall.kind = "devices" -> d \in fsCall.set
          [] OTHER                   -> FALSE}

\* C1: a bulk query with withIoStats = true returns records that each carry the
\* entry of the parsed disk statistics map for their device, and all-zero
\* DiskStats when the map has no entry for it.
C1_DiskStatsMerged ==
    (fsResult.kind = "ok" /\ fsCall.withIoStats) =>
        LET m == getDiskStatsMap(diskStatsFile).map
        IN  \A i \in 1..Len(fsResult.fs) :
                LET fs == fsResult.fs[i]
                IN  /\ fs.Device \in DOMAIN m => fs.DiskStats = m[fs.Device]
                    /\ fs.Device \notin DOMAIN m => fs.DiskStats = ZeroDiskStats

\* C3: a bulk query with withIoStats = false returns no error and exactly one
\* record for each cached partition that passes the filter and whose FsStats
\* call succeeded, none for any other; the record's Device is the cache key,
\* its Major and Minor are the partition's, and its Type, Capacity, Free,
\* Available, Inodes and InodesFree are what FsStats returned for the device.
C3_BulkQuery ==
    (fsResult.kind # "none" /\ ~fsCall.withIoStats) =>
        /\ fsResult.kind = "ok"
        /\ Len(fsResult.fs) = Cardinality(Passing \ statFails)
        /\ {fsResult.fs[i].Device : i \in 1..Len(fsResult.fs)} = Passing \ statFails
        /\ \A i \in 1..Len(fsResult.fs) :
               LET fs == fsResult.fs[i]
                   st == StatsOf(fs.Device)
               IN  /\ fs.Major = partitionCache[fs.Device].major
                   /\ fs.Minor = partitionCache[fs.Device].minor
                   /\ fs.Type = st.Type
                   /\ fs.Capacity = st.Capacity
                   /\ fs.Free = st.Free
                   /\ fs.Available = st.Available
                   /\ fs.Inodes = st.Inodes
                   /\ fs.InodesFree = st.InodesFree

\* a filtered query over a cache of three partitions, one of which passes the
\* filter and fails its FsStats call, has returned the one that is left
C3_Witness ==
    /\ fsResult.kind = "ok"
    /\ fsCall.kind = "mounts"
    /\ ~fsCall.withIoStats
    /\ DOMAIN partitionCache = Devices
    /\ Cardinality(Passing) = 2
    /\ Cardinality(Passing \cap statFails) = 1
    /\ Len(fsResult.fs) = 1

\* C7: after any sequence of RefreshCache calls the partitions a bulk query
\* enumerates are those of the most recent Refresh that succeeded (the initial
\* set if none did), never a mix; a RefreshCache whose Refresh failed has
\* only logged a warning, and the queries answer as before.
C7_LastGoodSnapshot ==
    /\ partitionCache = refreshed
    /\ (fsResult.kind = "ok" /\ fsCall.kind = "global") =>
           /\ {fsResult.fs[i].Device : i \in 1..Len(fsResult.fs)}
                  = DOMAIN refreshed \ statFails
           /\ \A i \in 1..Len(fsResult.fs) :
                  /\ fsResult.fs[i].Major = refreshed[fsResult.fs[i].Device].major
                  /\ fsResult.fs[i].Minor = refreshed[fsResult.fs[i].Device].minor
    /\ refreshLog.err \notin {"none", "nil"} => refreshLog.warned

\* a Refresh has failed after one that succeeded, and a query of everything
\* has since returned a non-empty answer
C7_Witness ==
    /\ refreshLog.err = "refresh failed"
    /\ fsResult.kind = "ok"
    /\ fsCall.kind = "global"
    /\ Len(fsResult.fs) >= 2

\* the words of line i of the source
Words(i) == Fields(diskStatsFile.lines[i])

LineNumbers == 1..Len(diskStatsFile.lines)

\* line i names a device of the pattern
Matching(i) == MatchString(Words(i)[3])

\* word w is an unsigned decimal number of at most 64 bits
IsUint64(w) == ParseUint(w).ok

\* every line of the source has at least three words
ThreeWordsEach == \A i \in LineNumbers : Len(Words(i)) >= 3

\* the last line of the source that names the device of line i
LastFor(i) ==
    CHOOSE j \in LineNumbers :
        /\ Matching(j)
        /\ Words(j)[3] = Words(i)[3]
        /\ \A k \in LineNumbers : (Matching(k) /\ Words(k)[3] = Words(i)[3]) => k <= j

\* the map of a source without a faulty line: an entry "/dev/<name>" for each
\* matching name, its fields the words 4..14 of the last line for the name
IsMapOfSource(m) ==
    /\ DOMAIN m = {"/dev/" \o Cat(Words(i)[3]) : i \in {j \in LineNumbers : Matching(j)}}
    /\ \A i \in {j \in LineNumbers : Matching(j)} :
           LET w == Words(LastFor(i))
               e == m["/dev/" \o Cat(w[3])]
           IN  /\ e.ReadsCompleted  = ParseUint(w[4]).val
               /\ e.ReadsMerged     = ParseUint(w[5]).val
               /\ e.SectorsRead     = ParseUint(w[6]).val
               /\ e.ReadTime        = ParseUint(w[7]).val
               /\ e.WritesCompleted = ParseUint(w[8]).val
               /\ e.WritesMerged    = ParseUint(w[9]).val
               /\ e.SectorsWritten  = ParseUint(w[10]).val
               /\ e.WriteTime       = ParseUint(w[11]).val
               /\ e.IoInProgress    = ParseUint(w[12]).val
               /\ e.IoTime          = ParseUint(w[13]).val
               /\ e.WeightedIoTime  = ParseUint(w[14]).val

\* C4 as stated: for a source whose lines have at least three words each,
\* getDiskStatsMap returns an empty map and no error when the source does not
\* exist, an error and no map when a matching line has fewer than 11 words
\* after the name, and otherwise the map of the source.
C4_AsStated ==
    (parseResult.kind # "none" /\ diskStatsFile.state # "denied" /\ ThreeWordsEach) =>
        IF diskStatsFile.state = "missing"
        THEN parseResult.kind = "ok" /\ parseResult.map = EmptyMap
        ELSE IF \E i \in LineNumbers : Matching(i) /\ Len(Words(i)) - 3 < 11
        THEN parseResult.kind = "err" /\ parseResult.map = EmptyMap
        ELSE parseResult.kind = "ok" /\ IsMapOfSource(parseResult.map)

\* C4 amended: as stated, with a second cause of the error: a matching line
\* with a word after the name (any of them, also one past the 14th) that is
\* not an unsigned decimal number of at most 64 bits.
C4_ReferenceParser ==
    (parseResult.kind # "none" /\ diskStatsFile.state # "denied" /\ ThreeWordsEach) =>
        IF diskStatsFile.state = "missing"
        THEN parseResult.kind = "ok" /\ parseResult.map = EmptyMap
        ELSE IF \E i \in LineNumbers :
                    /\ Matching(i)
                    /\ \/ Len(Words(i)) - 3 < 11
                       \/ \E k \in 4..Len(Words(i)) : ~IsUint64(Words(i)[k])
        THEN parseResult.kind = "err" /\ parseResult.map = EmptyMap
        ELSE parseResult.kind = "ok" /\ IsMapOfSource(parseResult.map)

\* a source of two lines for the same device has been parsed: the second wins
C4_Witness ==
    /\ parseResult.kind = "ok"
    /\ diskStatsFile.lines = <<LineSda, LineSdaLater>>
    /\ parseResult.map["/dev/sda"].ReadsCompleted = 101
    /\ parseResult.map["/dev/sda"].WeightedIoTime = 111

\* C10: for every content of an existing source, with blank lines and lines of
\* fewer than three words, getDiskStatsMap ends with a map or an error value;
\* such lines are skipped like lines that do not match the pattern.
C10_ShortLinesSkipped ==
    (parseResult.kind # "none" /\ diskStatsFile.state = "ok") =>
        /\ parseResult.kind \in {"ok", "err"}
        /\ parseResult =
               getDiskStatsMap(File(SelectSeq(diskStatsFile.lines,
                                              LAMBDA l : Len(Fields(l)) >= 3)))

\* C5: decoding the device number packed from (major, minor), major below 2^12
\* and minor below 2^20, gives back (major, minor), and GetDirFsDevice looks
\* the partition cache up with that pair; 0x0801 decodes to major 8, minor 1.
C5_MajorMinorRoundTrip ==
    /\ major(statDev) = srcMajor
    /\ minor(statDev) = srcMinor
    /\ devLookup # NoLookup => devLookup = [major |-> srcMajor, minor |-> srcMinor]
    /\ major(Uint64(2049)) = 8
    /\ minor(Uint64(2049)) = 1

\* the lookup for the largest major and minor has been made
C5_Witness ==
    /\ devLookup = [major |-> 4095, minor |-> 1048575]
    /\ statDev = 0..31

\* C6: GetDirUsage with dir = "" returns an error and usage 0 for every
\* timeout, and starts neither a child nor a timer.
C6_EmptyDir ==
    (dir = "" /\ pc # "idle") =>
        /\ pc = "returned"
        /\ duResult.kind = "err"
        /\ duResult.usage = 0
        /\ child = NoChild
        /\ timer = "none"
        /\ callback = "none"

\* the call with dir = "" and a timeout of 30 has returned
C6_Witness == dir = "" /\ timeout = 30 /\ pc = "returned" /\ duResult.kind = "err"

\* C2: every GetDirUsage that has started its child returns in the end, also
\* when the child never exits and never closes its stdout and stderr: the
\* child is killed when the timeout has passed.
C2_TimeBounded == (pc = "readStdout") ~> (pc \in {"returned", "panicked"})

\* word w is an unsigned decimal integer
IsUnsignedDecimal(w) == w # <<>> /\ \A i \in 1..Len(w) : IsDigit(w[i])

\* C8: after an exit with status zero the result is the first field of stdout
\* times 1024 and no error when that field is an unsigned decimal integer, and
\* an error otherwise, also when stdout holds no field at all.
C8_ZeroExitResult ==
    (waitErr = "nil" /\ pc \in {"returned", "panicked"}) =>
        LET fields == Fields(stdoutBuf)
        IN  IF fields # <<>> /\ IsUnsignedDecimal(fields[1])
            THEN /\ pc = "returned"
                 /\ duResult.kind = "ok"
                 /\ duResult.usage = Horner(fields[1], 0) * 1024
            ELSE /\ pc = "returned"
                 /\ duResult.kind = "err"

\* C9: Kill is never called on a child whose exit Wait has already collected.
C9_NoKillAfterWait == killedAt # "reaped"

====
